---- MODULE Spec2Model ----
(***************************************************************************)
(* State-machine model of the capture ingestion worker                     *)
(* (backend/pcap_parser.py: run_zeek_analysis, ingest_zeek_log,            *)
(* parse_and_ingest_pcap_sync) and of the job control endpoints of         *)
(* backend/main.py (upload, cancel_analysis) that share ANALYSIS_PROGRESS  *)
(* with it.  The worker runs in a thread of its own; the endpoints run on  *)
(* the server's event loop, so an endpoint can run between any two worker  *)
(* steps below.  A second specification, SpecRecords, applies the          *)
(* conversion of one enrichment log line (parse_zeek_ascii_log,            *)
(* process_zeek_record) to every line of a set of JSON and ASCII inputs.   *)
(* SpecControl adds the status reads of get_analysis_status to the job,    *)
(* and SpecReprocess runs the script of backend/reprocess_dns.py twice,    *)
(* each run in a process of its own.                                       *)
(***************************************************************************)
EXTENDS Integers, Sequences, FiniteSets, TLC

VARIABLES
    capture,                 \* the uploaded file: [file, frames]
    zeek,                    \* the enrichment tool's behaviour on it: [outcome, logs]
    progress_dict,           \* ANALYSIS_PROGRESS: task id -> [status, progress]
    pc,                      \* position of the worker in parse_and_ingest_pcap_sync
    result,                  \* how the worker's call ended
    idx,                     \* frames the reader has yielded so far
    packet_num_counter,      \* local of parse_and_ingest_pcap_sync
    packet_count,            \* local of parse_and_ingest_pcap_sync
    packets_to_insert_rows,  \* local of parse_and_ingest_pcap_sync: the packet buffer
    log_i,                   \* index of the log run_zeek_analysis is ingesting
    log_pos,                 \* records of that log read so far
    batch,                   \* local of ingest_zeek_log: the enrichment buffer
    store,                   \* the ClickHouse tables, rows in insertion order
    cancel_in_loop,          \* history: a cancel of this job arrived in the frame loop, frames unread
    cancel_requested,        \* history: a cancel of this job was accepted
    store_failed,            \* history: some insert raised
    zin,                     \* a log line under conversion: [table, format, json, line]
    dns_packets,             \* reprocess_dns: result.result_rows of its packets query
    reprocess,               \* reprocess_dns: each run of the script: [hash, pc, pos, dns_records]
    response,                \* the answer of the last call of a job control endpoint
    zout                     \* how its ingestion ended: [json, ascii]

vars == <<capture, zeek, progress_dict, pc, result, idx, packet_num_counter,
          packet_count, packets_to_insert_rows, log_i, log_pos, batch, store,
          cancel_in_loop, cancel_requested, store_failed, zin, zout, response,
          dns_packets, reprocess>>

-----------------------------------------------------------------------------
(* Bounds of the model.                                                    *)

\* Longest capture, in frames.
MaxFrames == 4

\* Longest enrichment log, in records.
MaxLogRecs == 3

\* The flush threshold of both buffers.  The program sets 5000
\* (pcap_parser.py lines 268 and 418); the model runs it scaled down so that
\* captures of MaxFrames frames cross it more than once.
batch_size == 2

\* The progress report period.  The program sets 2000 (pcap_parser.py line
\* 608); scaled down like batch_size.
progress_every == 2

-----------------------------------------------------------------------------
(* Frames and their classification.                                        *)

\* A capture frame as dpkt decodes it: whether dpkt.ethernet.Ethernet(buf)
\* returns (it raises on a buffer shorter than the link header), the network
\* layer found behind the link header and any VLAN/MPLS tags, the IP protocol
\* number, the decoded transport and its ports.
TcpFrame == [eth |-> TRUE, l3 |-> "ip", p |-> 6, l4 |-> "tcp", sport |-> 40000, dport |-> 9000]
UdpFrame == [eth |-> TRUE, l3 |-> "ip", p |-> 17, l4 |-> "udp", sport |-> 40000, dport |-> 9000]
\* Four bytes of garbage: too short for a link header.
GarbageFrame == [eth |-> FALSE, l3 |-> "none", p |-> 0, l4 |-> "none", sport |-> 0, dport |-> 0]

\* A frame with a link header and a payload that is neither IP nor ARP.
OpaqueFrame == [eth |-> TRUE, l3 |-> "none", p |-> 0, l4 |-> "none", sport |-> 0, dport |-> 0]

FrameInputs == {TcpFrame, UdpFrame, GarbageFrame, OpaqueFrame}

\* The ports the frames of the wide inputs use: the ones the code tests, the
\* other well-known ones, and two ephemeral ones.
Ports == {22, 53, 67, 68, 80, 123, 137, 443, 1900, 5353, 5355, 8080, 9000, 40000}

\* Every frame whose IP payload decodes as TCP or as UDP, over Ports.
TransportFrames ==
    {[eth |-> TRUE, l3 |-> "ip", p |-> 6, l4 |-> "tcp", sport |-> s, dport |-> d] :
        s \in Ports, d \in Ports}
    \cup
    {[eth |-> TRUE, l3 |-> "ip", p |-> 17, l4 |-> "udp", sport |-> s, dport |-> d] :
        s \in Ports, d \in Ports}

\* IP frames without a decoded TCP or UDP header (ICMP, a protocol of the
\* table, an unknown protocol number, a TCP or UDP payload too short to
\* decode) and an ARP frame.
OtherFrames ==
    {[eth |-> TRUE, l3 |-> "ip", p |-> 1, l4 |-> "icmp", sport |-> 0, dport |-> 0],
     [eth |-> TRUE, l3 |-> "arp", p |-> 0, l4 |-> "none", sport |-> 0, dport |-> 0]}
    \cup
    {[eth |-> TRUE, l3 |-> "ip", p |-> n, l4 |-> "none", sport |-> 0, dport |-> 0] :
        n \in {6, 17, 47, 132, 200}}

\* A DNS query over UDP port 53.
DnsQueryFrame == [eth |-> TRUE, l3 |-> "ip", p |-> 17, l4 |-> "udp", sport |-> 40000, dport |-> 53]

\* try: eth = dpkt.ethernet.Ethernet(buf) / except: continue
EthDecodes(f) == f.eth

IP_PROTOCOLS(n) ==
    CASE n = 1 -> "ICMP" [] n = 2 -> "IGMP" [] n = 4 -> "IP-in-IP" [] n = 6 -> "TCP"
      [] n = 17 -> "UDP" [] n = 27 -> "RDP" [] n = 41 -> "IPv6" [] n = 47 -> "GRE"
      [] n = 50 -> "ESP" [] n = 51 -> "AH" [] n = 58 -> "ICMPv6" [] n = 88 -> "EIGRP"
      [] n = 89 -> "OSPF" [] n = 103 -> "PIM" [] n = 112 -> "VRRP" [] n = 115 -> "L2TP"
      [] n = 132 -> "SCTP" [] n = 137 -> "MPLS-in-IP"
      [] OTHER -> "Proto-" \o ToString(n)

\* A classifier that stops at the network layer: the IP protocol number's
\* name, without the transport branches of lines 493-523.
classify_NetworkOnly(f) ==
    IF f.l3 = "ip"
    THEN IF f.p \in {6, 17} THEN "Other" ELSE IP_PROTOCOLS(f.p)
    ELSE IF f.l3 = "arp" THEN "ARP"
    ELSE "Other"

\* A classifier without the protocol-number table of lines 492-493: an IP
\* frame that is not TCP, UDP or ICMP keeps the default label.
classify_NoProtocolTable(f) ==
    IF f.l3 = "ip"
    THEN IF f.l4 = "tcp"
         THEN IF f.sport = 80 \/ f.dport = 80 \/ f.sport = 8080 \/ f.dport = 8080
              THEN "HTTP"
              ELSE IF f.sport = 443 \/ f.dport = 443 THEN "TLS"
              ELSE IF f.sport = 53 \/ f.dport = 53 THEN "DNS"
              ELSE "TCP"
         ELSE IF f.l4 = "udp"
         THEN IF f.sport = 53 \/ f.dport = 53 THEN "DNS" ELSE "UDP"
         ELSE IF f.l4 = "icmp" THEN "ICMP"
         ELSE "Other"
    ELSE IF f.l3 = "arp" THEN "ARP"
    ELSE "Other"

\* The protocol column of the row of a frame whose link layer decoded.
classify(f) ==
    IF f.l3 = "ip"
    THEN IF f.l4 = "tcp"
         THEN IF f.sport = 80 \/ f.dport = 80 \/ f.sport = 8080 \/ f.dport = 8080
              THEN "HTTP"
              ELSE IF f.sport = 443 \/ f.dport = 443 THEN "TLS"
              ELSE IF f.sport = 53 \/ f.dport = 53 THEN "DNS"
              ELSE "TCP"
         ELSE IF f.l4 = "udp"
         THEN IF f.sport = 53 \/ f.dport = 53 THEN "DNS" ELSE "UDP"
         ELSE IF f.l4 = "icmp" THEN "ICMP"
         ELSE IP_PROTOCOLS(f.p)
    ELSE IF f.l3 = "arp" THEN "ARP"
    ELSE "Other"

\* The tuple appended to packets_to_insert_rows (the columns the properties read).
PacketRow(n, f) ==
    [packet_number |-> n, protocol |-> classify(f)]

-----------------------------------------------------------------------------
(* Values of log records, and the Python conversions the code applies.     *)

\* A value of a decoded log record.  A string is held as the pieces its
\* commas separate ("a,b" is <<"a", "b">>, "" is <<"">>); a float and a
\* datetime are held in tenths of a unit.
PyNone == [tag |-> "None", v |-> 0]
PyStr(pieces) == [tag |-> "str", v |-> pieces]
PyInt(n) == [tag |-> "int", v |-> n]
PyFloat(tenths) == [tag |-> "float", v |-> tenths]
PyBool(b) == [tag |-> "bool", v |-> b]
PyList(s) == [tag |-> "list", v |-> s]
PyDict(f) == [tag |-> "dict", v |-> f]
Datetime(tenths) == [tag |-> "datetime", v |-> tenths]
\* datetime.now(): an instant later than every instant of a log.
Now == [tag |-> "datetime.now", v |-> 0]
\* uuid.UUID(pcap_id)
UUID == [tag |-> "uuid", v |-> 0]

\* The numeric literals of the inputs: the text, its value in tenths, and
\* whether int() accepts the text (no decimal point).
NumericLiterals ==
    {[text |-> "0", tenths |-> 0, integral |-> TRUE],
     [text |-> "1", tenths |-> 10, integral |-> TRUE],
     [text |-> "3", tenths |-> 30, integral |-> TRUE],
     [text |-> "53", tenths |-> 530, integral |-> TRUE],
     [text |-> "300", tenths |-> 3000, integral |-> TRUE],
     [text |-> "40000", tenths |-> 400000, integral |-> TRUE],
     [text |-> "1.5", tenths |-> 15, integral |-> FALSE],
     [text |-> "300.000000", tenths |-> 3000, integral |-> FALSE],
     [text |-> "1000.000000", tenths |-> 10000, integral |-> FALSE]}

IsLiteral(x) == x.tag = "str" /\ Len(x.v) = 1 /\ \E e \in NumericLiterals : e.text = x.v[1]
LiteralOf(x) == CHOOSE e \in NumericLiterals : e.text = x.v[1]

\* float(x) returns (it raises ValueError or TypeError otherwise).
CanFloat(x) == x.tag \in {"int", "float", "bool"} \/ IsLiteral(x)
\* float(x), in tenths.
FloatOf(x) ==
    CASE x.tag = "int" -> x.v * 10
      [] x.tag = "float" -> x.v
      [] x.tag = "bool" -> IF x.v THEN 10 ELSE 0
      [] x.tag = "str" -> LiteralOf(x).tenths

\* int(x) returns.
CanInt(x) == x.tag \in {"int", "float", "bool"} \/ (IsLiteral(x) /\ LiteralOf(x).integral)
\* int(x): a float is truncated.
IntOf(x) ==
    CASE x.tag = "int" -> x.v
      [] x.tag = "float" -> x.v \div 10
      [] x.tag = "bool" -> IF x.v THEN 1 ELSE 0
      [] x.tag = "str" -> LiteralOf(x).tenths \div 10

\* bool(x)
BoolOf(x) ==
    CASE x.tag = "None" -> FALSE
      [] x.tag \in {"int", "float"} -> x.v # 0
      [] x.tag = "bool" -> x.v
      [] x.tag = "str" -> x.v # <<"">>
      [] x.tag = "list" -> x.v # <<>>
      [] x.tag = "dict" -> DOMAIN x.v # {}
      [] OTHER -> TRUE

\* str(x) of a list element.
StrOf(x) ==
    CASE x.tag = "str" -> x
      [] x.tag = "int" -> PyStr(<<ToString(x.v)>>)
      [] x.tag = "float" -> PyStr(<<ToString(x.v \div 10) \o "." \o ToString(x.v % 10)>>)
      [] x.tag = "bool" -> PyStr(<<IF x.v THEN "True" ELSE "False">>)
      [] x.tag = "None" -> PyStr(<<"None">>)

\* x.split(',')
Split(x) == PyList([i \in 1..Len(x.v) |-> PyStr(<<x.v[i]>>)])

\* x.lower(), for the texts of the inputs.
Lower(piece) == IF piece \in {"true", "True", "TRUE"} THEN "true" ELSE piece

\* x == 'T' or x.lower() == 'true'
IsTrueText(x) == x.v = <<"T">> \/ (Len(x.v) = 1 /\ Lower(x.v[1]) = "true")

\* x.split(',') if x != '-' else []
SplitUnlessDash(x) == IF x.v = <<"-">> THEN PyList(<<>>) ELSE Split(x)

-----------------------------------------------------------------------------
(* parse_zeek_ascii_log and process_zeek_record.                           *)

CommonColumns == {"ts", "uid", "pcap_id", "id_orig_h", "id_orig_p", "id_resp_h", "id_resp_p"}

ZEEK_TABLE_COLUMNS(table_name) ==
    CASE table_name = "conn_log" ->
            CommonColumns \cup
            {"proto", "service", "duration", "orig_bytes", "resp_bytes", "conn_state",
             "local_orig", "local_resp", "missed_bytes", "history", "orig_pkts",
             "orig_ip_bytes", "resp_pkts", "resp_ip_bytes", "tunnel_parents"}
      [] table_name = "dns_log" ->
            CommonColumns \cup
            {"proto", "trans_id", "query", "qclass", "qclass_name", "qtype", "qtype_name",
             "rcode", "rcode_name", "AA", "TC", "RD", "RA", "Z", "answers", "TTLs", "rejected"}
      [] table_name = "http_log" ->
            CommonColumns \cup
            {"trans_depth", "method", "host", "uri", "referrer", "version", "user_agent",
             "request_body_len", "response_body_len", "status_code", "status_msg", "tags",
             "username", "password", "proxied", "orig_fuids", "orig_filenames",
             "orig_mime_types", "resp_fuids", "resp_filenames", "resp_mime_types"}
      [] table_name = "ssl_log" ->
            CommonColumns \cup
            {"version", "cipher", "curve", "server_name", "resumed", "last_alert",
             "next_protocol", "established", "cert_chain_fuids", "client_cert_chain_fuids",
             "subject", "issuer", "client_subject", "client_issuer", "validation_status"}

\* The keys of ZEEK_COLUMN_DEFAULTS by the default they map to.
DefaultEmptyString ==
    {"uid", "id_orig_h", "id_resp_h", "proto", "service", "conn_state", "history",
     "query", "qclass_name", "qtype_name", "rcode_name",
     "method", "host", "uri", "referrer", "version", "user_agent", "status_msg",
     "username", "password",
     "cipher", "curve", "server_name", "last_alert", "next_protocol", "subject",
     "issuer", "client_subject", "client_issuer", "validation_status"}
DefaultZero ==
    {"id_orig_p", "id_resp_p", "orig_bytes", "resp_bytes", "missed_bytes", "orig_pkts",
     "orig_ip_bytes", "resp_pkts", "resp_ip_bytes",
     "trans_id", "qclass", "qtype", "rcode", "Z",
     "trans_depth", "request_body_len", "response_body_len", "status_code"}
DefaultFalse ==
    {"local_orig", "local_resp", "AA", "TC", "RD", "RA", "rejected", "resumed", "established"}
DefaultEmptyList ==
    {"tunnel_parents", "answers", "TTLs", "tags", "proxied", "orig_fuids", "orig_filenames",
     "orig_mime_types", "resp_fuids", "resp_filenames", "resp_mime_types",
     "cert_chain_fuids", "client_cert_chain_fuids"}

ZEEK_COLUMN_DEFAULTS ==
    [col \in DefaultEmptyString \cup DefaultZero \cup DefaultFalse \cup DefaultEmptyList
                \cup {"duration"} |->
        CASE col \in DefaultEmptyString -> PyStr(<<"">>)
          [] col \in DefaultZero -> PyInt(0)
          [] col \in DefaultFalse -> PyBool(FALSE)
          [] col \in DefaultEmptyList -> PyList(<<>>)
          [] col = "duration" -> PyFloat(0)]

\* A data line of a headered ASCII log: the names of the #fields line and the
\* tab-separated values of the line.  A field name is held as the parts its
\* dots separate ("id.orig_h" is <<"id", "orig_h">>).
\* parse_zeek_ascii_log yields one row for it, or skips it when the counts differ.
LineYields(line) == Len(line.values) = Len(line.fields)
parse_zeek_ascii_log(line) ==
    [field \in {line.fields[i] : i \in 1..Len(line.fields)} |->
        LET i == CHOOSE j \in 1..Len(line.fields) : line.fields[j] = field
        IN  IF line.values[i] = <<"-">> THEN PyNone ELSE PyStr(line.values[i])]

RECURSIVE Joined(_, _)
\* The parts of a key joined by sep.
Joined(key, sep) ==
    IF Len(key) = 1 THEN key[1] ELSE key[1] \o sep \o Joined(Tail(key), sep)

\* record['pcap_id'] = uuid.UUID(pcap_id)
WithPcapId(record) ==
    [k \in DOMAIN record \cup {<<"pcap_id">>} |-> IF k = <<"pcap_id">> THEN UUID ELSE record[k]]

\* record['ts'] = datetime.fromtimestamp(float(val)), datetime.now() when that raises
WithTimestamp(record) ==
    [k \in DOMAIN record |->
        IF k = <<"ts">>
        THEN IF CanFloat(record[k]) THEN Datetime(FloatOf(record[k])) ELSE Now
        ELSE record[k]]

\* The (key, value) items of flat_record: a nested dict gives "k_subk" for each
\* of its items, a dotted key has its dots replaced by underscores.
FlatItems(record) ==
    UNION {IF record[k].tag = "dict"
           THEN {<<Joined(k, ".") \o "_" \o sub_k, record[k].v[sub_k]>> : sub_k \in DOMAIN record[k].v}
           ELSE {<<Joined(k, "_"), record[k]>>} : k \in DOMAIN record}
flat_record(record) ==
    [k \in {item[1] : item \in FlatItems(record)} |->
        (CHOOSE item \in FlatItems(record) : item[1] = k)[2]]

\* The fields each table's branch coerces (lines 144-237).
list_fields(table_name) ==
    CASE table_name = "http_log" ->
            {"tags", "proxied", "orig_fuids", "orig_filenames", "orig_mime_types",
             "resp_fuids", "resp_filenames", "resp_mime_types"}
      [] table_name = "conn_log" -> {"tunnel_parents"}
      [] table_name = "ssl_log" -> {"cert_chain_fuids", "client_cert_chain_fuids"}
      [] OTHER -> {}
int_fields(table_name) ==
    CASE table_name = "http_log" ->
            {"request_body_len", "response_body_len", "status_code", "trans_depth",
             "id_orig_p", "id_resp_p"}
      [] table_name = "conn_log" ->
            {"orig_bytes", "resp_bytes", "missed_bytes", "orig_pkts", "orig_ip_bytes",
             "resp_pkts", "resp_ip_bytes", "id_orig_p", "id_resp_p"}
      [] table_name = "ssl_log" -> {"id_orig_p", "id_resp_p"}
      [] OTHER -> {}
float_fields(table_name) == IF table_name = "conn_log" THEN {"duration"} ELSE {}
bool_fields(table_name) ==
    CASE table_name = "conn_log" -> {"local_orig", "local_resp"}
      [] table_name = "ssl_log" -> {"resumed", "established"}
      [] OTHER -> {}

\* Lines 164-169, 181-187, 216-222: a list field of http_log, conn_log, ssl_log.
CoerceList(record, field) ==
    IF field \in DOMAIN record
    THEN IF record[field].tag = "str" THEN SplitUnlessDash(record[field])
         ELSE IF record[field].tag # "list" THEN PyList(<<>>)
         ELSE record[field]
    ELSE PyList(<<>>)

\* Lines 172-177, 196-201, 225-230: an integer field.
CoerceInt(record, field) ==
    IF field \in DOMAIN record /\ record[field] # PyNone
    THEN IF CanInt(record[field]) THEN PyInt(IntOf(record[field])) ELSE PyInt(0)
    ELSE PyInt(0)

\* Lines 190-193: duration.
CoerceFloat(record, field) ==
    IF field \in DOMAIN record /\ CanFloat(record[field])
    THEN PyFloat(FloatOf(record[field]))
    ELSE PyFloat(0)

\* Lines 204-211, 232-237: a boolean field that is in the record.
CoerceBool(record, field) ==
    IF record[field].tag = "bool" THEN record[field]
    ELSE IF record[field].tag = "str" THEN PyBool(IsTrueText(record[field]))
    ELSE PyBool(BoolOf(record[field]))

\* Lines 145-151: answers of dns_log.
CoerceAnswers(record) ==
    IF "answers" \in DOMAIN record
    THEN IF record["answers"].tag = "str" THEN SplitUnlessDash(record["answers"])
         ELSE IF record["answers"].tag = "list"
         THEN PyList([i \in 1..Len(record["answers"].v) |-> StrOf(record["answers"].v[i])])
         ELSE record["answers"]
    ELSE PyList(<<>>)

\* int(float(t))
IntOfFloat(x) == PyInt(FloatOf(x) \div 10)

\* Lines 153-159: TTLs of dns_log.  int(float(t)) raises on a piece that is
\* no number, and the exception leaves process_zeek_record.
TTLsRaise(record) ==
    /\ "TTLs" \in DOMAIN record
    /\ \/ /\ record["TTLs"].tag = "str"
          /\ record["TTLs"].v # <<"-">>
          /\ \E i \in 1..Len(record["TTLs"].v) : ~IsLiteral(PyStr(<<record["TTLs"].v[i]>>))
       \/ /\ record["TTLs"].tag = "list"
          /\ \E i \in 1..Len(record["TTLs"].v) : ~CanFloat(record["TTLs"].v[i])
CoerceTTLs(record) ==
    IF "TTLs" \in DOMAIN record
    THEN IF record["TTLs"].tag = "str"
         THEN IF record["TTLs"].v = <<"-">> THEN PyList(<<>>)
              ELSE PyList([i \in 1..Len(record["TTLs"].v) |-> IntOfFloat(PyStr(<<record["TTLs"].v[i]>>))])
         ELSE IF record["TTLs"].tag = "list"
         THEN PyList([i \in 1..Len(record["TTLs"].v) |-> IntOfFloat(record["TTLs"].v[i])])
         ELSE record["TTLs"]
    ELSE PyList(<<>>)

\* Lines 143-237: the type conversions of the table's branch.
Coerced(record, table_name) ==
    [k \in DOMAIN record \cup list_fields(table_name) \cup int_fields(table_name)
           \cup float_fields(table_name)
           \cup (IF table_name = "dns_log" THEN {"answers", "TTLs"} ELSE {}) |->
        CASE table_name = "dns_log" /\ k = "answers" -> CoerceAnswers(record)
          [] table_name = "dns_log" /\ k = "TTLs" -> CoerceTTLs(record)
          [] k \in list_fields(table_name) -> CoerceList(record, k)
          [] k \in int_fields(table_name) -> CoerceInt(record, k)
          [] k \in float_fields(table_name) -> CoerceFloat(record, k)
          [] k \in bool_fields(table_name) -> CoerceBool(record, k)
          [] OTHER -> record[k]]

\* A record that keeps the fields the table does not declare.
FilterColumns_KeepAll(record, table_name) == record

\* Lines 239-242: record = {k: v for k, v in record.items() if k in allowed}
FilterColumns(record, table_name) ==
    [k \in DOMAIN record \cap ZEEK_TABLE_COLUMNS(table_name) |-> record[k]]

\* A record whose missing and null columns are left as they are.
FillDefaults_None(record, table_name) == record

\* Lines 244-256: every allowed column that is missing or None takes its
\* default; 'ts' has none in ZEEK_COLUMN_DEFAULTS and takes datetime.now(),
\* 'pcap_id' has none and is left alone.
FillDefaults(record, table_name) ==
    [col \in DOMAIN record \cup (ZEEK_TABLE_COLUMNS(table_name) \ {"pcap_id"}) |->
        IF col \notin DOMAIN record \/ record[col] = PyNone
        THEN IF col \in DOMAIN ZEEK_COLUMN_DEFAULTS THEN ZEEK_COLUMN_DEFAULTS[col]
             ELSE IF col = "ts" THEN Now
             ELSE IF col = "pcap_id" THEN record[col]
             ELSE PyStr(<<"">>)
        ELSE record[col]]

\* How a call of process_zeek_record ends: the row it returns, or an exception.
Returned(row) == [kind |-> "returned", row |-> row]
Raised == [kind |-> "raised", row |-> <<>>]

process_zeek_record(record, table_name) ==
    LET flat == flat_record(WithTimestamp(WithPcapId(record)))
    IN  IF table_name = "dns_log" /\ TTLsRaise(flat)
        THEN Raised
        ELSE Returned(FillDefaults(FilterColumns(Coerced(flat, table_name), table_name),
                                   table_name))

-----------------------------------------------------------------------------
(* Inputs.                                                                 *)

RECURSIVE SeqsUpTo(_, _)
SeqsUpTo(S, n) ==
    IF n = 0 THEN {<<>>}
    ELSE LET shorter == SeqsUpTo(S, n - 1)
         IN  shorter \cup {Append(s, x) : s \in {t \in shorter : Len(t) = n - 1}, x \in S}

task_id == "A"
TaskIds == {"A", "B"}

\* ("conn.log", "conn_log"), ("dns.log", "dns_log"), ("http.log", "http_log"), ("ssl.log", "ssl_log")
ZeekLogs == <<"conn_log", "dns_log", "http_log", "ssl_log">>
ZeekTables == {ZeekLogs[i] : i \in 1..Len(ZeekLogs)}

\* A record of a log: one that process_zeek_record turns into a row, or a
\* line that raises on the way (json.JSONDecodeError, a failed coercion).
RecordInputs == {"rec", "bad"}

\* A log file of the tool's output directory: log_path.exists() and its lines.
AbsentLog == [exists |-> FALSE, recs |-> <<>>]
LogOf(l) == [exists |-> TRUE, recs |-> l]
NoLogs == [t \in ZeekTables |-> AbsentLog]

\* ANALYSIS_PROGRESS[task_id] = {"status": "processing", "progress": 0}
NewEntry == [status |-> "processing", progress |-> 0]

EmptyStore ==
    [packets |-> <<>>, pcap_metadata |-> <<>>,
     conn_log |-> <<>>, dns_log |-> <<>>, http_log |-> <<>>, ssl_log |-> <<>>]

ToolFails == {"unavailable", "timeout", "nonzero"}

\* An uploaded file of frames of len bytes each: a pcap file is a 24-byte
\* header and, for each frame, a 16-byte record header and the frame
\* (file_size is file_path.stat().st_size, line 425).
Capture(fl, fs, len) ==
    [file |-> fl, frames |-> fs,
     file_size |-> IF fl = "empty" THEN 0 ELSE 24 + (16 + len) * Len(fs)]

\* The state when the background task is about to start.
Start(c, z, d) ==
    /\ capture = c
    /\ zeek = z
    /\ progress_dict = d
    /\ pc = "zeek_find"
    /\ result = "running"
    /\ idx = 0
    /\ packet_num_counter = 0
    /\ packet_count = 0
    /\ packets_to_insert_rows = <<>>
    /\ log_i = 0
    /\ log_pos = 0
    /\ batch = <<>>
    /\ store = EmptyStore
    /\ cancel_in_loop = FALSE
    /\ cancel_requested = FALSE
    /\ store_failed = FALSE

OneDnsRecord == [NoLogs EXCEPT !["dns_log"] = LogOf(<<"rec">>)]

\* Every capture up to MaxFrames frames, uploaded to a project, with the
\* enrichment tool failing or producing no log or one dns record.
InitCaptures ==
    \E fs \in SeqsUpTo(FrameInputs, MaxFrames),
       z \in [outcome : ToolFails, logs : {NoLogs}]
             \cup [outcome : {"ok"}, logs : {NoLogs, OneDnsRecord}] :
        Start(Capture("ok", fs, 64), z, [t \in {task_id} |-> NewEntry])

\* Every log up to MaxLogRecs records in one of the four places, the other
\* logs absent or one record long, on a three-frame capture.
InitLogs ==
    \E t1 \in ZeekTables, l \in SeqsUpTo(RecordInputs, MaxLogRecs),
       rest \in {AbsentLog, LogOf(<<"rec">>)} :
        Start(Capture("ok", <<TcpFrame, UdpFrame, TcpFrame>>, 64),
              [outcome |-> "ok", logs |-> [t \in ZeekTables |-> IF t = t1 THEN LogOf(l) ELSE rest]],
              [t \in {task_id} |-> NewEntry])

\* A file dpkt cannot open.  The tool cannot read a missing or empty file
\* either; a container dpkt does not know may still be one the tool reads.
InitBadFile ==
    \/ \E fl \in {"missing", "empty"}, o \in ToolFails :
        Start(Capture(fl, <<>>, 64), [outcome |-> o, logs |-> NoLogs],
              [t \in {task_id} |-> NewEntry])
    \/ \E z \in [outcome : ToolFails, logs : {NoLogs}]
                \cup [outcome : {"ok"}, logs : {NoLogs, OneDnsRecord}] :
        Start(Capture("badheader", <<>>, 64), z, [t \in {task_id} |-> NewEntry])

\* The registry as the two upload paths leave it: upload_pcap_to_project
\* registers task_id, upload_pcap passes an id it never registered; other
\* jobs' entries may be there in both.
InitRegistry ==
    \E dom \in SUBSET TaskIds, o \in ToolFails \cup {"ok"},
       fs \in {<<>>, <<TcpFrame, GarbageFrame, UdpFrame>>} :
        Start(Capture("ok", fs, 64),
              [outcome |-> o, logs |-> IF o = "ok" THEN OneDnsRecord ELSE NoLogs],
              [t \in dom |-> NewEntry])

\* Every frame of the wide inputs, once or twice in a capture of its own, the
\* enrichment tool not installed.
InitFrames ==
    \E f \in TransportFrames \cup OtherFrames : \E fs \in {<<f>>, <<f, f>>} :
        Start(Capture("ok", fs, 64), [outcome |-> "unavailable", logs |-> NoLogs],
              [t \in {task_id} |-> NewEntry])

\* A capture of MaxFrames frames, all small (64 bytes) or all full-size
\* (1500 bytes), the tool producing one dns record, under every registry.
InitFrameSizes ==
    \E dom \in SUBSET TaskIds, len \in {64, 1500} :
        Start(Capture("ok", [i \in 1..MaxFrames |-> TcpFrame], len),
              [outcome |-> "ok", logs |-> OneDnsRecord], [t \in dom |-> NewEntry])


-----------------------------------------------------------------------------
(* Log records: the inputs of parse_zeek_ascii_log and process_zeek_record. *)

\* Instants the logs carry as ISO date strings, in tenths of a second.
IsoInstants == {[text |-> "1970-01-01T00:16:40Z", tenths |-> 10000]}

\* The fields every log of the tool has, as its JSON writer emits them.
BaseJson(table_name) ==
    [k \in {<<"ts">>, <<"uid">>, <<"id", "orig_h">>, <<"id", "orig_p">>,
            <<"id", "resp_h">>, <<"id", "resp_p">>} |->
        CASE k = <<"ts">> -> PyFloat(10000)
          [] k = <<"uid">> -> PyStr(<<"CUid1">>)
          [] k = <<"id", "orig_h">> -> PyStr(<<"10.0.0.1">>)
          [] k = <<"id", "orig_p">> -> PyInt(40000)
          [] k = <<"id", "resp_h">> -> PyStr(<<"10.0.0.2">>)
          [] k = <<"id", "resp_p">> -> PyInt(53)]

\* The same fields as a line of the ASCII writer.
BaseFields == <<<<"ts">>, <<"uid">>, <<"id", "orig_h">>, <<"id", "orig_p">>,
                <<"id", "resp_h">>, <<"id", "resp_p">>>>
BaseValues == <<<<"1000.000000">>, <<"CUid1">>, <<"10.0.0.1">>, <<"40000">>,
                <<"10.0.0.2">>, <<"53">>>>

\* The field that varies in an input: a common one, a field the table's
\* branch coerces, a plain string field of the table, or one the table does
\* not declare.
VariedKeys(table_name) ==
    {<<"ts">>, <<"id", "orig_p">>, <<"uid">>, <<"extra_field">>} \cup
    CASE table_name = "conn_log" ->
            {<<"local_orig">>, <<"local_resp">>, <<"duration">>, <<"orig_bytes">>,
             <<"tunnel_parents">>, <<"proto">>}
      [] table_name = "dns_log" ->
            {<<"AA">>, <<"rejected">>, <<"answers">>, <<"TTLs">>, <<"trans_id">>, <<"query">>}
      [] table_name = "http_log" -> {<<"tags">>, <<"status_code">>, <<"method">>}
      [] table_name = "ssl_log" ->
            {<<"resumed">>, <<"established">>, <<"cert_chain_fuids">>, <<"version">>}

\* The texts a field holds in either format.
Texts ==
    {<<"-">>, <<"T">>, <<"F">>, <<"true">>, <<"false">>, <<"53">>, <<"1.5">>,
     <<"1000.000000">>, <<"300", "3">>, <<"a", "b">>, <<"example.com">>,
     <<"1970-01-01T00:16:40Z">>}

\* The values json.loads gives a field.
JsonValues ==
    {PyStr(t) : t \in Texts} \cup
    {PyNone, PyStr(<<"">>), PyInt(0), PyInt(53), PyFloat(15), PyFloat(10000),
     PyBool(TRUE), PyBool(FALSE), PyList(<<>>),
     PyList(<<PyStr(<<"a">>), PyStr(<<"b">>)>>), PyList(<<PyInt(300), PyFloat(30)>>),
     PyList(<<PyNone>>)}

NoJson == <<>>
NoLine == [fields |-> <<>>, values |-> <<>>]
Input(table_name, format, json, line) ==
    [table |-> table_name, format |-> format, json |-> json, line |-> line]
NoInput == Input("conn_log", "none", NoJson, NoLine)

\* The base record with one field set to v.
JsonWith(table_name, k, v) ==
    [j \in DOMAIN BaseJson(table_name) \cup {k} |-> IF j = k THEN v ELSE BaseJson(table_name)[j]]
\* The base record without the field k.
JsonWithout(table_name, k) ==
    [j \in DOMAIN BaseJson(table_name) \ {k} |-> BaseJson(table_name)[j]]
\* The base record with the connection fields nested under "id".
JsonNested(table_name) ==
    [j \in {<<"ts">>, <<"uid">>, <<"id">>} |->
        IF j = <<"id">>
        THEN PyDict([s \in {"orig_h", "orig_p", "resp_h", "resp_p"} |->
                        BaseJson(table_name)[<<"id", s>>]])
        ELSE BaseJson(table_name)[j]]

JsonInputs ==
    {Input(t, "json", JsonWith(t, k, v), NoLine) :
        t \in ZeekTables, k \in UNION {VariedKeys(u) : u \in ZeekTables}, v \in JsonValues}
    \cup {Input(t, "json", JsonWithout(t, k), NoLine) :
            t \in ZeekTables, k \in {<<"ts">>, <<"uid">>, <<"id", "orig_p">>}}
    \cup {Input(t, "json", JsonNested(t), NoLine) : t \in ZeekTables}

\* The base line with one more field, or with one field's value replaced.
LineWith(k, text) ==
    IF \E i \in 1..Len(BaseFields) : BaseFields[i] = k
    THEN [fields |-> BaseFields,
          values |-> [i \in 1..Len(BaseFields) |-> IF BaseFields[i] = k THEN text ELSE BaseValues[i]]]
    ELSE [fields |-> Append(BaseFields, k), values |-> Append(BaseValues, text)]
\* A line with one value fewer than the header has fields.
ShortLine == [fields |-> BaseFields, values |-> SubSeq(BaseValues, 1, Len(BaseValues) - 1)]

AsciiInputs ==
    {Input(t, "ascii", NoJson, LineWith(k, text)) :
        t \in ZeekTables, k \in UNION {VariedKeys(u) : u \in ZeekTables}, text \in Texts}
    \cup {Input(t, "ascii", NoJson, ShortLine) : t \in ZeekTables}

\* A DNS transaction as the tool knows it, before a writer formats it:
\* flags, the response code, and the answers (none when the field is unset),
\* each answer with a TTL of 300 seconds.
DnsTransactions ==
    [AA : BOOLEAN, RD : BOOLEAN, rcode : {0, 3}, answers : {<<>>, <<"a">>, <<"a", "b">>}]

DnsKeys == {<<"proto">>, <<"trans_id">>, <<"query">>, <<"qtype">>, <<"rcode">>,
            <<"AA">>, <<"RD">>, <<"rejected">>}
DnsFields == <<<<"proto">>, <<"trans_id">>, <<"query">>, <<"qtype">>, <<"rcode">>,
               <<"AA">>, <<"RD">>, <<"rejected">>, <<"answers">>, <<"TTLs">>>>

\* The transaction as the JSON writer emits it: native numbers, booleans and
\* lists, unset fields left out.
DnsJson(d) ==
    [k \in DOMAIN BaseJson("dns_log") \cup DnsKeys
           \cup (IF d.answers = <<>> THEN {} ELSE {<<"answers">>, <<"TTLs">>}) |->
        CASE k \in DOMAIN BaseJson("dns_log") -> BaseJson("dns_log")[k]
          [] k = <<"proto">> -> PyStr(<<"udp">>)
          [] k = <<"trans_id">> -> PyInt(53)
          [] k = <<"query">> -> PyStr(<<"example.com">>)
          [] k = <<"qtype">> -> PyInt(1)
          [] k = <<"rcode">> -> PyInt(d.rcode)
          [] k = <<"AA">> -> PyBool(d.AA)
          [] k = <<"RD">> -> PyBool(d.RD)
          [] k = <<"rejected">> -> PyBool(FALSE)
          [] k = <<"answers">> -> PyList([i \in 1..Len(d.answers) |-> PyStr(<<d.answers[i]>>)])
          [] k = <<"TTLs">> -> PyList([i \in 1..Len(d.answers) |-> PyFloat(3000)])]

\* The transaction as the ASCII writer emits it: every value a text, T and F
\* for booleans, lists joined by commas, '-' for an unset field.
BoolText(b) == IF b THEN <<"T">> ELSE <<"F">>
DnsLine(d) ==
    [fields |-> BaseFields \o DnsFields,
     values |-> BaseValues \o
        <<<<"udp">>, <<"53">>, <<"example.com">>, <<"1">>, <<ToString(d.rcode)>>,
          BoolText(d.AA), BoolText(d.RD), BoolText(FALSE),
          IF d.answers = <<>> THEN <<"-">> ELSE d.answers,
          IF d.answers = <<>> THEN <<"-">>
          ELSE [i \in 1..Len(d.answers) |-> "300.000000"]>>]

\* One transaction, written in both formats.
BothInputs == {Input("dns_log", "both", DnsJson(d), DnsLine(d)) : d \in DnsTransactions}

\* How the ingestion of a line ended, per format: not run yet, the line
\* skipped by the parser, or the outcome of process_zeek_record.
NotRun == [kind |-> "none", row |-> <<>>]
Skipped == [kind |-> "skipped", row |-> <<>>]
NoOutput == [json |-> NotRun, ascii |-> NotRun]

\* No run of the reprocessing script.
NoRuns == <<>>

\* What an endpoint answers: the HTTP status code and the JSON body (the
\* returned dict, or the detail of the HTTPException).
Answer(op, t, code, body) == [op |-> op, id |-> t, code |-> code, body |-> body]
NoResponse == Answer("none", "", 0, [detail |-> ""])

\* A job about to start, no log line under conversion, no endpoint called.
Init ==
    /\ \/ InitCaptures \/ InitLogs \/ InitBadFile \/ InitRegistry \/ InitFrames
       \/ InitFrameSizes
    /\ zin = NoInput
    /\ zout = NoOutput
    /\ response = NoResponse
    /\ dns_packets = <<>>
    /\ reprocess = NoRuns

-----------------------------------------------------------------------------
(* The registry, as the worker uses it.                                    *)

\* task_id in progress_dict
Registered == task_id \in DOMAIN progress_dict

\* "if task_id and progress_dict": a non-empty id and a non-empty dict.
Truthy == DOMAIN progress_dict # {}

SetStatus(d, st, pr) == [d EXCEPT ![task_id] = [status |-> st, progress |-> pr]]
SetProgress(d, pr) == [d EXCEPT ![task_id].progress = pr]

\* client.insert(table, rows): the rows are appended as one block.
Insert(st, table, rows) == [st EXCEPT ![table] = st[table] \o rows]

WorkerLocals == <<idx, packet_num_counter, packet_count, packets_to_insert_rows>>
ZeekLocals == <<log_i, log_pos, batch>>
Inputs == <<capture, zeek, zin, zout, dns_packets, reprocess>>
History == <<cancel_in_loop, cancel_requested, store_failed>>

-----------------------------------------------------------------------------
(* run_zeek_analysis and ingest_zeek_log.                                  *)

\* Lines 337-348: find the executable, report the phase.  The report indexes
\* progress_dict[task_id] outside any try: an id that is not a key of a
\* non-empty dict raises KeyError into the caller's handler.
ZeekFind ==
    /\ pc = "zeek_find"
    /\ IF zeek.outcome = "unavailable"
       THEN /\ pc' = "index_start"
            /\ UNCHANGED progress_dict
       ELSE IF Truthy
            THEN IF Registered
                 THEN /\ progress_dict' = SetStatus(progress_dict, "analyzing_zeek", 5)
                      /\ pc' = "zeek_run"
                 ELSE /\ pc' = "except"
                      /\ UNCHANGED progress_dict
            ELSE /\ pc' = "zeek_run"
                 /\ UNCHANGED progress_dict
    /\ UNCHANGED <<Inputs, response, result, WorkerLocals, ZeekLocals, store, History>>

\* ZeekRun with the tool's failure left to propagate to the caller's handler.
ZeekRun_FailurePropagates ==
    /\ pc = "zeek_run"
    /\ IF zeek.outcome = "ok"
       THEN /\ progress_dict' = IF Truthy THEN SetProgress(progress_dict, 20) ELSE progress_dict
            /\ pc' = "zeek_ingest"
            /\ log_i' = 1
            /\ log_pos' = 0
            /\ batch' = <<>>
       ELSE /\ pc' = "except"
            /\ UNCHANGED <<progress_dict, ZeekLocals>>
    /\ UNCHANGED <<Inputs, response, result, WorkerLocals, store, History>>

\* Lines 350-368 and 385-396: subprocess.run(cmd, check=True, timeout=300).
\* A timeout or a nonzero exit only changes the message.
ZeekRun ==
    /\ pc = "zeek_run"
    /\ IF zeek.outcome = "ok"
       THEN /\ progress_dict' = IF Truthy THEN SetProgress(progress_dict, 20) ELSE progress_dict
            /\ pc' = "zeek_ingest"
            /\ log_i' = 1
            /\ log_pos' = 0
            /\ batch' = <<>>
       ELSE /\ pc' = "index_start"
            /\ UNCHANGED <<progress_dict, ZeekLocals>>
    /\ UNCHANGED <<Inputs, response, result, WorkerLocals, store, History>>

\* The row process_zeek_record returns for the n-th record of a log.
ZeekRow(n) == [rec |-> n]

\* Lines 296-304 and 312-319: the threshold flush of ingest_zeek_log.  An
\* insert that raises is printed and the batch is dropped.
ZeekFlush(b, table, ok) ==
    /\ store' = IF ok THEN Insert(store, table, b) ELSE store
    /\ store_failed' = (store_failed \/ ~ok)
    /\ batch' = <<>>

\* Lines 284-304 and 307-321: one record of the current log.
ZeekRecord ==
    /\ pc = "zeek_ingest"
    /\ log_i <= Len(ZeekLogs)
    /\ zeek.logs[ZeekLogs[log_i]].exists
    /\ log_pos < Len(zeek.logs[ZeekLogs[log_i]].recs)
    /\ LET table == ZeekLogs[log_i]
           rec == zeek.logs[table].recs[log_pos + 1]
           b == Append(batch, ZeekRow(log_pos + 1))
       IN  /\ log_pos' = log_pos + 1
           /\ IF rec = "bad"
              THEN UNCHANGED <<batch, store, store_failed>>
              ELSE IF Len(b) >= batch_size
                   THEN \E ok \in BOOLEAN : ZeekFlush(b, table, ok)
                   ELSE /\ batch' = b
                        /\ UNCHANGED <<store, store_failed>>
    /\ UNCHANGED <<Inputs, response, progress_dict, pc, result, WorkerLocals, log_i,
                   cancel_in_loop, cancel_requested>>

\* Lines 323-329 and 372-380: end of the current log (or no such log): the
\* final flush, then on to the next log with a fresh batch.
ZeekLogEnd ==
    /\ pc = "zeek_ingest"
    /\ log_i <= Len(ZeekLogs)
    /\ LET table == ZeekLogs[log_i]
           log == zeek.logs[table]
       IN  /\ log.exists => log_pos = Len(log.recs)
           /\ IF log.exists /\ batch # <<>>
              THEN \E ok \in BOOLEAN : ZeekFlush(batch, table, ok)
              ELSE /\ batch' = <<>>
                   /\ UNCHANGED <<store, store_failed>>
    /\ log_i' = log_i + 1
    /\ log_pos' = 0
    /\ UNCHANGED <<Inputs, response, progress_dict, pc, result, WorkerLocals,
                   cancel_in_loop, cancel_requested>>

\* Lines 382-383: all four logs done.
ZeekDone ==
    /\ pc = "zeek_ingest"
    /\ log_i > Len(ZeekLogs)
    /\ progress_dict' = IF Truthy THEN SetProgress(progress_dict, 30) ELSE progress_dict
    /\ pc' = "index_start"
    /\ UNCHANGED <<Inputs, response, result, WorkerLocals, ZeekLocals, store, History>>

-----------------------------------------------------------------------------
(* parse_and_ingest_pcap_sync.                                             *)

\* Lines 407-444: report the phase, then open the file.  A missing or empty
\* file, or one neither dpkt reader accepts, raises ValueError.
IndexStart ==
    /\ pc = "index_start"
    /\ progress_dict' = IF Registered
                        THEN SetStatus(progress_dict, "processing_packets", 30)
                        ELSE progress_dict
    /\ pc' = IF capture.file = "ok" THEN "loop" ELSE "except"
    /\ UNCHANGED <<Inputs, response, result, WorkerLocals, ZeekLocals, store, History>>

\* Lines 449-452: the reader yields the next frame and the status is checked;
\* the loop ends when the reader is exhausted.
LoopCheck ==
    /\ pc = "loop"
    /\ IF idx = Len(capture.frames)
       THEN /\ pc' = "final_flush"
            /\ UNCHANGED <<idx, result>>
       ELSE IF Registered /\ progress_dict[task_id].status = "cancelled"
            THEN /\ pc' = "done"
                 /\ result' = "cancel_return"
                 /\ idx' = idx + 1
            ELSE /\ pc' = "frame"
                 /\ idx' = idx + 1
                 /\ UNCHANGED result
    /\ UNCHANGED <<Inputs, response, progress_dict, packet_num_counter, packet_count,
                   packets_to_insert_rows, ZeekLocals, store, History>>

\* A loop body without the threshold test of line 603: rows are appended and
\* the next frame is read.
Frame_NoThreshold ==
    /\ pc = "frame"
    /\ packet_num_counter' = packet_num_counter + 1
    /\ packet_count' = packet_count + 1
    /\ LET f == capture.frames[idx]
       IN  IF ~EthDecodes(f)
           THEN UNCHANGED packets_to_insert_rows
           ELSE packets_to_insert_rows' =
                    Append(packets_to_insert_rows, PacketRow(packet_num_counter + 1, f))
    /\ pc' = "loop"
    /\ UNCHANGED <<Inputs, response, progress_dict, result, idx, ZeekLocals, store, History>>

\* Lines 454-467: the counters advance, then the link layer is decoded; a
\* frame dpkt cannot decode is skipped with "continue".
\* Lines 469-603: the row is built and appended.
Frame ==
    /\ pc = "frame"
    /\ packet_num_counter' = packet_num_counter + 1
    /\ packet_count' = packet_count + 1
    /\ LET f == capture.frames[idx]
           rows == Append(packets_to_insert_rows, PacketRow(packet_num_counter + 1, f))
       IN  IF ~EthDecodes(f)
           THEN /\ pc' = "loop"
                /\ UNCHANGED packets_to_insert_rows
           ELSE /\ packets_to_insert_rows' = rows
                /\ pc' = IF Len(rows) >= batch_size THEN "flush" ELSE "loop"
    /\ UNCHANGED <<Inputs, response, progress_dict, result, idx, ZeekLocals, store, History>>

\* Line 611: remaining_progress = 69.
remaining_progress == 69

\* Line 447: estimated_packets = file_size / 800, kept as the fraction.
\* The packet pass' share of the progress without the min of line 612.
current_progress_Unclamped ==
    (packet_num_counter * 800 * remaining_progress) \div capture.file_size

\* Line 612: min(remaining_progress, int(packet_num_counter / estimated_packets
\* * remaining_progress)), read where the threshold flush has just been made.
current_progress ==
    LET share == (packet_num_counter * 800 * remaining_progress) \div capture.file_size
    IN  IF share < remaining_progress THEN share ELSE remaining_progress

\* Flush without "packets_to_insert_rows = []".
Flush_KeepsBuffer ==
    /\ pc = "flush"
    /\ store' = Insert(store, "packets", packets_to_insert_rows)
    /\ pc' = "loop"
    /\ UNCHANGED <<Inputs, response, progress_dict, result, WorkerLocals, ZeekLocals, History>>

\* Lines 604-617: the threshold flush.  The insert is not guarded: when it
\* raises, the handler of line 649 runs.
Flush ==
    /\ pc = "flush"
    /\ \E ok \in BOOLEAN :
        IF ok
        THEN /\ store' = Insert(store, "packets", packets_to_insert_rows)
             /\ packets_to_insert_rows' = <<>>
             /\ progress_dict' =
                    IF packet_num_counter % progress_every = 0 /\ Registered
                    THEN SetProgress(progress_dict, 30 + current_progress)
                    ELSE progress_dict
             /\ pc' = "loop"
             /\ UNCHANGED store_failed
        ELSE /\ store_failed' = TRUE
             /\ pc' = "except"
             /\ UNCHANGED <<store, packets_to_insert_rows, progress_dict>>
    /\ UNCHANGED <<Inputs, response, result, idx, packet_num_counter, packet_count, ZeekLocals,
                   cancel_in_loop, cancel_requested>>

\* FinalFlush without the insert of the rows left.
FinalFlush_Skipped ==
    /\ pc = "final_flush"
    /\ pc' = "write_meta"
    /\ UNCHANGED <<Inputs, response, progress_dict, result, WorkerLocals, ZeekLocals, store, History>>

\* Lines 619-621: the rows left in the buffer; the list is not reset.
FinalFlush ==
    /\ pc = "final_flush"
    /\ IF packets_to_insert_rows # <<>>
       THEN \E ok \in BOOLEAN :
               IF ok
               THEN /\ store' = Insert(store, "packets", packets_to_insert_rows)
                    /\ pc' = "write_meta"
                    /\ UNCHANGED store_failed
               ELSE /\ store_failed' = TRUE
                    /\ pc' = "except"
                    /\ UNCHANGED store
       ELSE /\ pc' = "write_meta"
            /\ UNCHANGED <<store, store_failed>>
    /\ UNCHANGED <<Inputs, response, progress_dict, result, WorkerLocals, ZeekLocals,
                   cancel_in_loop, cancel_requested>>

\* Lines 623-639: the pcap_metadata row.
WriteMetadata ==
    /\ pc = "write_meta"
    /\ \E ok \in BOOLEAN :
        IF ok
        THEN /\ store' = Insert(store, "pcap_metadata", <<[total_packets |-> packet_count]>>)
             /\ pc' = "complete"
             /\ UNCHANGED store_failed
        ELSE /\ store_failed' = TRUE
             /\ pc' = "except"
             /\ UNCHANGED store
    /\ UNCHANGED <<Inputs, response, progress_dict, result, WorkerLocals, ZeekLocals,
                   cancel_in_loop, cancel_requested>>

\* Lines 641-647.
Complete ==
    /\ pc = "complete"
    /\ progress_dict' = IF Registered
                        THEN SetStatus(progress_dict, "completed", 100)
                        ELSE progress_dict
    /\ pc' = "done"
    /\ result' = "returned"
    /\ UNCHANGED <<Inputs, response, WorkerLocals, ZeekLocals, store, History>>

\* Lines 649-657: the handler of every exception of the function.
Except ==
    /\ pc = "except"
    /\ progress_dict' = IF Registered
                        THEN [progress_dict EXCEPT ![task_id].status = "failed"]
                        ELSE progress_dict
    /\ pc' = "done"
    /\ result' = "raised"
    /\ UNCHANGED <<Inputs, response, WorkerLocals, ZeekLocals, store, History>>

-----------------------------------------------------------------------------
(* main.py: the job control endpoints.                                     *)

InLoop == pc \in {"loop", "frame", "flush"}

\* A cancel endpoint that registers an id it does not know, as the upload of
\* main.py line 245 does, instead of answering 404.
cancel_analysis_Upsert(t) ==
    /\ progress_dict' =
          [u \in DOMAIN progress_dict \cup {t} |->
              IF u = t
              THEN [status |-> "cancelled",
                    progress |-> IF t \in DOMAIN progress_dict
                                 THEN progress_dict[t].progress ELSE 0]
              ELSE progress_dict[u]]
    /\ response' = Answer("cancel", t, 200, [message |-> "Cancellation requested"])
    /\ UNCHANGED <<Inputs, pc, result, WorkerLocals, ZeekLocals, store, History>>

\* Lines 266-273: POST /api/analyze/cancel/{task_id}; 404 for an unknown id.
cancel_analysis(t) ==
    /\ IF t \in DOMAIN progress_dict
       THEN /\ progress_dict' = [progress_dict EXCEPT ![t].status = "cancelled"]
            /\ cancel_requested' = (cancel_requested \/ t = task_id)
            /\ cancel_in_loop' =
                  (cancel_in_loop
                     \/ (t = task_id /\ InLoop /\ idx < Len(capture.frames)))
            /\ response' = Answer("cancel", t, 200, [message |-> "Cancellation requested"])
       ELSE /\ response' = Answer("cancel", t, 404, [detail |-> "Task not found"])
            /\ UNCHANGED <<progress_dict, cancel_requested, cancel_in_loop>>
    /\ UNCHANGED <<Inputs, pc, result, WorkerLocals, ZeekLocals, store, store_failed>>

Cancel == \E t \in TaskIds : cancel_analysis(t)

\* Lines 259-264: GET /api/analyze/status/{task_id}: the entry of the id as
\* it is now, 404 for an unknown id.
get_analysis_status(t) ==
    /\ response' = IF t \in DOMAIN progress_dict
                   THEN Answer("status", t, 200, progress_dict[t])
                   ELSE Answer("status", t, 404, [detail |-> "Task not found"])
    /\ UNCHANGED <<Inputs, progress_dict, pc, result, WorkerLocals, ZeekLocals,
                   store, History>>

GetStatus == \E t \in TaskIds : get_analysis_status(t)

-----------------------------------------------------------------------------

Worker ==
    \/ ZeekFind \/ ZeekRun \/ ZeekRecord \/ ZeekLogEnd \/ ZeekDone
    \/ IndexStart \/ LoopCheck \/ Frame \/ Flush \/ FinalFlush
    \/ WriteMetadata \/ Complete \/ Except

Next == Worker \/ Cancel

Spec == Init /\ [][Next]_vars

-----------------------------------------------------------------------------
(* The job with both control endpoints: the worker, cancel requests and    *)
(* status reads in every interleaving.                                     *)

InitControl ==
    /\ InitRegistry \/ InitFrameSizes \/ InitBadFile
    /\ zin = NoInput
    /\ zout = NoOutput
    /\ response = NoResponse
    /\ dns_packets = <<>>
    /\ reprocess = NoRuns

NextControl == Worker \/ Cancel \/ GetStatus

SpecControl == InitControl /\ [][NextControl]_vars

-----------------------------------------------------------------------------
(* The conversion of one log line, as ingest_zeek_log applies it.          *)

JobVars == <<capture, zeek, progress_dict, pc, result, WorkerLocals, ZeekLocals, store,
             History, response, dns_packets, reprocess>>

\* Lines 284-289 on a line of a JSON log: record = json.loads(line), then
\* process_zeek_record.
ConvertJsonLine ==
    /\ zin.format \in {"json", "both"}
    /\ zout.json = NotRun
    /\ zout' = [zout EXCEPT !.json = process_zeek_record(zin.json, zin.table)]
    /\ UNCHANGED <<zin, JobVars>>

\* Lines 307-310 on a data line of an ASCII log: the row
\* parse_zeek_ascii_log yields, then process_zeek_record; no row for a line
\* the parser skips.
ConvertAsciiLine ==
    /\ zin.format \in {"ascii", "both"}
    /\ zout.ascii = NotRun
    /\ zout' = [zout EXCEPT !.ascii =
                    IF LineYields(zin.line)
                    THEN process_zeek_record(parse_zeek_ascii_log(zin.line), zin.table)
                    ELSE Skipped]
    /\ UNCHANGED <<zin, JobVars>>

\* Every line of the inputs, in a job whose other state does not matter here.
InitRecords ==
    /\ Start(Capture("ok", <<>>, 64), [outcome |-> "ok", logs |-> NoLogs],
             [t \in {task_id} |-> NewEntry])
    /\ zin \in JsonInputs \cup AsciiInputs \cup BothInputs
    /\ zout = NoOutput
    /\ response = NoResponse
    /\ dns_packets = <<>>
    /\ reprocess = NoRuns

NextRecords == ConvertJsonLine \/ ConvertAsciiLine

SpecRecords == InitRecords /\ [][NextRecords]_vars

-----------------------------------------------------------------------------
(* reprocess_dns.py: the script that fills dns_log from the packets rows   *)
(* labelled 'DNS', run by hand, each run in an interpreter of its own.     *)

\* Most rows the packets query of a run returns.
MaxDnsRows == 2

\* Two runs of the script over the same capture.
Processes == {1, 2}

\* A row of the query of lines 31-36; of layers_json, whether it has a layer
\* named 'dns' and the text of that layer's 'id' field.
DnsPacket(layer, id) ==
    [ts |-> "2024-01-01 00:00:01", src_ip |-> "10.0.0.1", src_port |-> 40000,
     dst_ip |-> "10.0.0.2", dst_port |-> 53, dns_layer |-> layer, id |-> id]

\* A row with a hexadecimal transaction id, one with a decimal id, and a row
\* as the packet pass writes it, without a 'dns' layer.
DnsPackets == {DnsPacket(TRUE, "0x1a2b"), DnsPacket(TRUE, "4660"), DnsPacket(FALSE, "")}

\* Lines 54-58: int(s, 16) after '0x', int(s) for digits, 0 otherwise.
trans_id(text) ==
    CASE text = "0x1a2b" -> 6699
      [] text = "4660" -> 4660
      [] OTHER -> 0

\* Line 100: the f-string that is hashed.
HashKey(row) ==
    row.src_ip \o ToString(row.src_port) \o row.dst_ip \o ToString(row.dst_port)
        \o ToString(trans_id(row.id)) \o row.ts

HashKeys == {HashKey(row) : row \in {r \in DnsPackets : r.dns_layer}}

\* hash() of a str is keyed by a value the interpreter draws when it starts
\* (hash randomization, the default): within a process it is a function of
\* the string, from one process to the next it is any such function.
HashValues == {-1, 0, 305419896}
HashFunctions == [HashKeys -> HashValues]

HexDigits ==
    <<"0", "1", "2", "3", "4", "5", "6", "7", "8", "9", "a", "b", "c", "d", "e", "f">>

\* format(n, '0<w>x') for 0 <= n < 16^w.
RECURSIVE Hex(_, _)
Hex(n, w) == IF w = 0 THEN "" ELSE Hex(n \div 16, w - 1) \o HexDigits[(n % 16) + 1]

\* Line 100: f"C{hash(...) % 100000000:08x}".
uid(row, hash) == "C" \o Hex(hash[HashKey(row)] % 100000000, 8)

\* Lines 102-108: the tuple appended to dns_records (the columns the
\* properties read).
DnsRecord(row, hash) ==
    [ts |-> row.ts, uid |-> uid(row, hash), trans_id |-> trans_id(row.id)]

JobState ==
    <<capture, zeek, zin, zout, progress_dict, pc, result, WorkerLocals, ZeekLocals,
      History, response>>

\* Lines 40-115: one row of the result; a row without a 'dns' layer is
\* skipped (lines 47-49).
ReprocessRow(p) ==
    /\ p \in DOMAIN reprocess
    /\ reprocess[p].pc = "rows"
    /\ reprocess[p].pos < Len(dns_packets)
    /\ LET row == dns_packets[reprocess[p].pos + 1]
       IN  reprocess' =
              [reprocess EXCEPT
                  ![p].pos = @ + 1,
                  ![p].dns_records =
                      IF row.dns_layer
                      THEN Append(@, DnsRecord(row, reprocess[p].hash))
                      ELSE @]
    /\ UNCHANGED <<JobState, dns_packets, store>>

\* Lines 117-132: the records are inserted into dns_log, if there are any;
\* an insert that raises ends the script.
ReprocessInsert(p) ==
    /\ p \in DOMAIN reprocess
    /\ reprocess[p].pc = "rows"
    /\ reprocess[p].pos = Len(dns_packets)
    /\ \E ok \in BOOLEAN :
          IF reprocess[p].dns_records # <<>> /\ ok
          THEN /\ store' = Insert(store, "dns_log", reprocess[p].dns_records)
               /\ reprocess' = [reprocess EXCEPT ![p].pc = "done"]
          ELSE /\ reprocess' = [reprocess EXCEPT ![p].pc =
                                   IF reprocess[p].dns_records = <<>> THEN "done" ELSE "raised"]
               /\ UNCHANGED store
    /\ UNCHANGED <<JobState, dns_packets>>

\* Every result of the query up to MaxDnsRows rows, each run with the hash
\* function of its process, the job's state not mattering here.
InitReprocess ==
    /\ Start(Capture("ok", <<>>, 64), [outcome |-> "ok", logs |-> NoLogs],
             [t \in {task_id} |-> NewEntry])
    /\ zin = NoInput
    /\ zout = NoOutput
    /\ response = NoResponse
    /\ dns_packets \in SeqsUpTo(DnsPackets, MaxDnsRows)
    /\ reprocess \in [Processes -> [hash : HashFunctions, pc : {"rows"}, pos : {0},
                                    dns_records : {<<>>}]]

NextReprocess == \E p \in Processes : ReprocessRow(p) \/ ReprocessInsert(p)

SpecReprocess == InitReprocess /\ [][NextReprocess]_vars

-----------------------------------------------------------------------------
(* Properties.                                                             *)

Status == progress_dict[task_id].status
Terminal == {"completed", "failed", "cancelled"}

\* The run reached line 647 with its status set to 'completed'.
EndedCompleted == result = "returned" /\ Registered

\* C1: in every run that ends 'completed' the packet_number values of the
\* rows written are 1..N in write order, N the number of rows written, also
\* for a capture with frames whose link-layer decode fails.
C1_SequenceContiguous ==
    EndedCompleted =>
        \A i \in 1..Len(store.packets) : store.packets[i].packet_number = i

\* C2: every frame read produces exactly one packets row, a frame whose
\* decode fails with the label 'Other', its neighbours with their own labels.
C2_EveryFrameRecorded ==
    EndedCompleted =>
        /\ Len(store.packets) = Len(capture.frames)
        /\ \A i \in 1..Len(capture.frames) :
              i <= Len(store.packets) =>
                  store.packets[i].protocol =
                      IF EthDecodes(capture.frames[i]) THEN classify(capture.frames[i])
                      ELSE "Other"

\* C3: a cancel request made inside the frame loop while the reader still
\* has a frame to yield (so a per-frame status check is still to come) ends
\* the job 'cancelled': no pcap_metadata row is written and the worker sets
\* neither 'completed' nor 'failed' afterwards.
C3_CancelInLoopEndsCancelled ==
    cancel_in_loop =>
        /\ store.pcap_metadata = <<>>
        /\ Status \notin {"completed", "failed"}
        /\ pc = "done" => (result = "cancel_return" /\ Status = "cancelled")

\* C4: after a job is cancelled with K < N frames processed the store holds
\* no packets row of the capture.  The worker has returned and neither it nor
\* cancel_analysis deletes rows (the one delete of the program, main.py lines
\* 213-218, belongs to a later upload to the same project), so the rows held
\* at the return are the rows the job leaves behind.
C4_NoRowsAfterCancel ==
    result = "cancel_return" => store.packets = <<>>

\* C5: a terminal status is never changed, by the worker or by a cancel
\* request.
C5_TerminalImmutable ==
    [][\A t \in DOMAIN progress_dict :
          progress_dict[t].status \in Terminal =>
              progress_dict'[t].status = progress_dict[t].status]_vars

\* The states of the job state machine: 'processing' is the status set at
\* upload, 'analyzing_zeek' and 'processing_packets' are the worker's phases.
Phase(st) ==
    IF st = "processing" THEN "queued"
    ELSE IF st \in {"analyzing_zeek", "processing_packets"} THEN "running"
    ELSE st

AllowedTransitions ==
    {<<"queued", "running">>, <<"running", "completed">>,
     <<"running", "failed">>, <<"running", "cancelled">>}

\* C6: the status moves only queued -> running -> {completed, failed,
\* cancelled}.
C6_StateMachine ==
    [][\A t \in DOMAIN progress_dict :
          \/ Phase(progress_dict'[t].status) = Phase(progress_dict[t].status)
          \/ <<Phase(progress_dict[t].status), Phase(progress_dict'[t].status)>>
                 \in AllowedTransitions]_vars

\* Every row of the packet buffer has been written to the store.  The list
\* is a local that the final flush writes and does not reset, so after it the
\* buffer holds no unwritten row although the list is not empty.
BufferFlushed ==
    \A i \in 1..Len(packets_to_insert_rows) :
        \E j \in 1..Len(store.packets) : store.packets[j] = packets_to_insert_rows[i]

\* C7: while the status is 'completed' every frame has been read, the packet
\* buffer holds no unwritten row and exactly one pcap_metadata row has been
\* written; never more than one row is written, and none for a job that ends
\* 'failed'.
C7_CompletedMeansFlushed ==
    /\ (Registered /\ Status = "completed") =>
           /\ idx = Len(capture.frames)
           /\ BufferFlushed
           /\ Len(store.pcap_metadata) = 1
    /\ Len(store.pcap_metadata) <= 1
    /\ (result = "raised" \/ (Registered /\ Status = "failed")) => store.pcap_metadata = <<>>

C7_Witness ==
    /\ Registered
    /\ Status = "completed"
    /\ Len(store.packets) > batch_size
    /\ packets_to_insert_rows # <<>>

\* C8: for a file that is missing, empty or of no supported container format
\* the job ends failed with no row written to any table.
C8_BadFileWritesNothing ==
    (capture.file # "ok" /\ pc = "done") =>
        /\ result = "raised"
        /\ store = EmptyStore

NoZeekRows == \A t \in ZeekTables : store[t] = <<>>

RECURSIVE RowsOf(_, _)
\* The rows the loop appends for the first k frames.
RowsOf(frames, k) ==
    IF k = 0 THEN <<>>
    ELSE IF EthDecodes(frames[k])
         THEN Append(RowsOf(frames, k - 1), PacketRow(k, frames[k]))
         ELSE RowsOf(frames, k - 1)

\* C9: an enrichment tool that is unavailable, times out or exits nonzero
\* writes no enrichment row and does not fail the job: the packet pass runs
\* and, the capture being valid (no cancel, no failing insert), ends
\* 'completed' with the rows of every decoded frame.
C9_ToolFailureSkipped ==
    (zeek.outcome \in ToolFails /\ Registered) =>
        /\ NoZeekRows
        /\ (capture.file = "ok" /\ ~store_failed) => Status # "failed"
        /\ (capture.file = "ok" /\ ~store_failed /\ ~cancel_requested) =>
              /\ pc # "done" => ENABLED Worker
              /\ pc = "done" =>
                    /\ Status = "completed"
                    /\ Len(store.packets) = Len(RowsOf(capture.frames, Len(capture.frames)))

C9_Witness ==
    /\ zeek.outcome \in ToolFails
    /\ Registered
    /\ Status = "completed"
    /\ Len(store.packets) > batch_size
    /\ ~cancel_requested

\* The final flush of the packet buffer has run.
FinalFlushed == pc \in {"write_meta", "complete"} \/ result = "returned"

\* Rows of the packet buffer not yet written.
Pending == IF FinalFlushed THEN <<>> ELSE packets_to_insert_rows

LogIndex(t) == CHOOSE i \in 1..Len(ZeekLogs) : ZeekLogs[i] = t

\* Records of table t's log that ingest_zeek_log has read.
RecordsRead(t) ==
    IF LogIndex(t) < log_i THEN Len(zeek.logs[t].recs)
    ELSE IF LogIndex(t) = log_i THEN log_pos
    ELSE 0

RECURSIVE ZeekRowsOf(_, _)
\* The rows ingest_zeek_log appends for the first k records of a log.
ZeekRowsOf(recs, k) ==
    IF k = 0 THEN <<>>
    ELSE IF recs[k] = "rec"
         THEN Append(ZeekRowsOf(recs, k - 1), ZeekRow(k))
         ELSE ZeekRowsOf(recs, k - 1)

\* Rows of table t's batch not yet written.
PendingBatch(t) == IF pc = "zeek_ingest" /\ LogIndex(t) = log_i THEN batch ELSE <<>>

\* C10: with no failing insert and no cancel, the rows written followed by
\* the rows still buffered are the rows appended, once each and in append
\* order, for the packet buffer and for each log's batch; a buffer is
\* flushed exactly when it reaches batch_size rows and is then empty, and
\* the rows left are written by one flush at the end of the input.
C10_ExactlyOnceInOrder ==
    (~store_failed /\ ~cancel_requested) =>
        /\ store.packets \o Pending = RowsOf(capture.frames, packet_num_counter)
        /\ pc = "flush" => Len(packets_to_insert_rows) = batch_size
        /\ pc # "flush" => Len(packets_to_insert_rows) < batch_size
        /\ ~FinalFlushed => Len(store.packets) % batch_size = 0
        /\ \A t \in ZeekTables :
              /\ store[t] \o PendingBatch(t) = ZeekRowsOf(zeek.logs[t].recs, RecordsRead(t))
              /\ Len(store[t]) % batch_size # 0 => LogIndex(t) < log_i
        /\ Len(batch) < batch_size

C10_Witness ==
    /\ ~store_failed
    /\ ~cancel_requested
    /\ result = "returned"
    /\ Len(store.packets) > batch_size
    /\ Len(store.packets) % batch_size # 0
    /\ \E t \in ZeekTables : Len(store[t]) > batch_size /\ Len(store[t]) % batch_size # 0

\* The appended rows are all accounted for: written, or still in the buffer
\* that is to be written.
RowsAccounted ==
    /\ store.packets \o Pending = RowsOf(capture.frames, packet_num_counter)
    /\ \A t \in ZeekTables :
          store[t] \o PendingBatch(t) = ZeekRowsOf(zeek.logs[t].recs, RecordsRead(t))

\* C11: a batch insert that fails keeps its buffer for a retry: the step in
\* which an insert raises discards no row of the batch and leaves the worker
\* in the function, where it can insert the batch again.
C11_FailedFlushKeepsBatch ==
    [][(~store_failed /\ store_failed') => (RowsAccounted' /\ pc' # "except")]_vars

\* C12: when a store write of the job fails (a packets batch, an enrichment
\* batch or the metadata row: the program retries none) the job ends failed
\* and no pcap_metadata row is written.
C12_StoreFailureFailsJob ==
    (store_failed /\ pc = "done") =>
        /\ result = "raised"
        /\ store.pcap_metadata = <<>>

\* The rows of the packet pass so far, written or buffered, each with the
\* frame it was built from (packet_number is the frame's position).
PacketRowsSoFar == store.packets \o Pending
FrameOf(row) == capture.frames[row.packet_number]
HasTransport(f) == f.l3 = "ip" /\ f.l4 \in {"tcp", "udp"}
TransportLabel(f) == IF f.l4 = "tcp" THEN "TCP" ELSE "UDP"

\* The application labels of the classifier's port table.
ApplicationLabels == {"HTTP", "TLS", "DNS", "DHCP", "NTP", "SSDP", "SSH"}

\* The labels of a frame nothing was recognised in.
OpaqueLabels == {"Other", "DATA"} \cup {"Proto-" \o ToString(n) : n \in 0..255}

\* C18: the row of a frame whose IP payload decodes as TCP is labelled 'TCP'
\* or an application label, the row of one that decodes as UDP is labelled
\* 'UDP' or an application label; neither is ever labelled 'Other', 'DATA' or
\* 'Proto-<n>'.
C18_TransportNeverOpaque ==
    \A i \in 1..Len(PacketRowsSoFar) :
        LET row == PacketRowsSoFar[i]
        IN  HasTransport(FrameOf(row)) =>
                /\ row.protocol \in {TransportLabel(FrameOf(row))} \cup ApplicationLabels
                /\ row.protocol \notin OpaqueLabels

\* A TCP frame and a UDP frame with no port of the code's table have been
\* classified and their rows written.
C18_Witness ==
    /\ pc = "done"
    /\ \E i \in 1..Len(store.packets) :
          /\ FrameOf(store.packets[i]).l4 = "tcp"
          /\ store.packets[i].protocol = "TCP"
    /\ \E i \in 1..Len(store.packets) :
          /\ FrameOf(store.packets[i]).l4 = "udp"
          /\ store.packets[i].protocol = "UDP"

\* The well-known-port table of the specification's classifier.
WellKnownPorts == {80, 8080, 443, 53, 5353, 5355, 137, 67, 68, 123, 1900, 22}
WellKnownLabel(port) ==
    CASE port \in {80, 8080} -> "HTTP"
      [] port = 443 -> "TLS"
      [] port \in {53, 5353, 5355, 137} -> "DNS"
      [] port \in {67, 68} -> "DHCP"
      [] port = 123 -> "NTP"
      [] port = 1900 -> "SSDP"
      [] port = 22 -> "SSH"

\* C19: the row of a frame with a TCP or UDP header is labelled by the
\* well-known-port table, looked up on the source or on the destination port,
\* and it carries the bare 'TCP' or 'UDP' only when neither port is in the table.
C19_WellKnownPortTable ==
    \A i \in 1..Len(PacketRowsSoFar) :
        LET row == PacketRowsSoFar[i]
            f == FrameOf(row)
            known == {f.sport, f.dport} \cap WellKnownPorts
        IN  HasTransport(f) =>
                IF known = {}
                THEN row.protocol = TransportLabel(f)
                ELSE row.protocol \in {WellKnownLabel(port) : port \in known}

\* C20: a completed job on a capture of exactly two DNS queries over UDP port
\* 53, with no output of the enrichment tool, has written two packets rows
\* labelled 'DNS' and two dns_log rows, one per query.
C20_DirectDecodeWritesDnsRows ==
    (/\ capture.frames = <<DnsQueryFrame, DnsQueryFrame>>
     /\ zeek.outcome \in ToolFails
     /\ EndedCompleted
     /\ ~store_failed
     /\ ~cancel_requested) =>
        /\ Len(store.packets) = 2
        /\ \A i \in 1..2 : store.packets[i].protocol = "DNS"
        /\ Len(store.dns_log) = 2

-----------------------------------------------------------------------------
(* Properties of the conversion of a log line.                             *)

Formats == {"json", "ascii"}

\* The record handed to process_zeek_record, by the names of its columns.
RecordGiven(fmt) ==
    flat_record(IF fmt = "json" THEN zin.json ELSE parse_zeek_ascii_log(zin.line))

\* The column is missing from the input line or null in it: no field of that
\* name or a JSON null, no field of that name in the header or the '-' sentinel.
MissingOrNull(fmt, col) ==
    IF fmt = "json"
    THEN col \notin DOMAIN RecordGiven(fmt) \/ RecordGiven(fmt)[col] = PyNone
    ELSE \A i \in 1..Len(zin.line.fields) :
            Joined(zin.line.fields[i], "_") = col => zin.line.values[i] = <<"-">>

\* What a column nothing was given for holds: its ZEEK_COLUMN_DEFAULTS entry;
\* the current time for ts and the job's capture id for pcap_id, which have none.
DefaultOf(col) ==
    IF col \in DOMAIN ZEEK_COLUMN_DEFAULTS THEN ZEEK_COLUMN_DEFAULTS[col]
    ELSE IF col = "ts" THEN Now
    ELSE UUID

\* C13, as amended: the row process_zeek_record returns for a known table has
\* every declared column, none null, and a column missing or null in the
\* input holds its ZEEK_COLUMN_DEFAULTS entry, or, having none, the current
\* time (ts) or the capture id of the job (pcap_id).
C13_ColumnsPopulated ==
    \A fmt \in Formats :
        zout[fmt].kind = "returned" =>
            \A col \in ZEEK_TABLE_COLUMNS(zin.table) :
                /\ col \in DOMAIN zout[fmt].row
                /\ zout[fmt].row[col] # PyNone
                /\ MissingOrNull(fmt, col) => zout[fmt].row[col] = DefaultOf(col)

\* C13, as stated: every declared column that is missing or null in the input
\* holds its default from ZEEK_COLUMN_DEFAULTS (pcap_id, which is no column
\* of the input, left aside).
C13_DefaultsFromTable ==
    \A fmt \in Formats :
        zout[fmt].kind = "returned" =>
            \A col \in ZEEK_TABLE_COLUMNS(zin.table) \ {"pcap_id"} :
                /\ col \in DOMAIN zout[fmt].row
                /\ zout[fmt].row[col] # PyNone
                /\ MissingOrNull(fmt, col) =>
                        /\ col \in DOMAIN ZEEK_COLUMN_DEFAULTS
                        /\ zout[fmt].row[col] = ZEEK_COLUMN_DEFAULTS[col]

\* An ASCII line with the '-' sentinel in a declared column and other declared
\* columns missing has been converted, and the row holds the defaults.
C13_Witness ==
    /\ zin.format = "ascii"
    /\ zin.table = "dns_log"
    /\ zin.line = LineWith(<<"id", "orig_p">>, <<"-">>)
    /\ zout.ascii.kind = "returned"
    /\ zout.ascii.row["id_orig_p"] = PyInt(0)
    /\ zout.ascii.row["AA"] = PyBool(FALSE)
    /\ zout.ascii.row["answers"] = PyList(<<>>)

\* C14: the keys of the row process_zeek_record returns for a known table are
\* exactly the table's declared columns, whatever fields the line had.
C14_KeysAreDeclaredColumns ==
    \A fmt \in Formats :
        zout[fmt].kind = "returned" => DOMAIN zout[fmt].row = ZEEK_TABLE_COLUMNS(zin.table)

\* A JSON line with a non-null field the table does not declare has been
\* converted.
C14_Witness ==
    /\ zin.format = "json"
    /\ zout.json.kind = "returned"
    /\ \E k \in DOMAIN zin.json :
          /\ Joined(k, "_") \notin ZEEK_TABLE_COLUMNS(zin.table)
          /\ zin.json[k].tag = "str"

\* C15: one DNS transaction written as an ASCII line and as a JSON line gives
\* the same value in every column of the two dns_log rows.
C15_FormatsAgree ==
    (/\ zin.format = "both"
     /\ zout.json.kind = "returned"
     /\ zout.ascii.kind = "returned") =>
        \A col \in ZEEK_TABLE_COLUMNS("dns_log") : zout.json.row[col] = zout.ascii.row[col]

\* The boolean-typed columns of each table.
BooleanColumns(table_name) ==
    CASE table_name = "conn_log" -> {"local_orig", "local_resp"}
      [] table_name = "dns_log" -> {"AA", "TC", "RD", "RA", "rejected"}
      [] table_name = "ssl_log" -> {"resumed", "established"}
      [] OTHER -> {}

\* C16: every boolean-typed column of the returned row is a native boolean:
\* true for the texts T and true, false for F and false, a native boolean kept.
C16_BooleansNative ==
    \A fmt \in Formats :
        zout[fmt].kind = "returned" =>
            \A col \in BooleanColumns(zin.table) :
                /\ zout[fmt].row[col].tag = "bool"
                /\ col \in DOMAIN RecordGiven(fmt) =>
                      LET given == RecordGiven(fmt)[col]
                      IN  /\ given \in {PyStr(<<"T">>), PyStr(<<"true">>)} =>
                                zout[fmt].row[col] = PyBool(TRUE)
                          /\ given \in {PyStr(<<"F">>), PyStr(<<"false">>)} =>
                                zout[fmt].row[col] = PyBool(FALSE)
                          /\ given.tag = "bool" => zout[fmt].row[col] = given

\* C17: a ts given as an epoch-seconds number or numeric text, or as an ISO
\* date text, gives the row the timestamp of that instant.
C17_TimestampParsed ==
    \A fmt \in Formats :
        (zout[fmt].kind = "returned" /\ "ts" \in DOMAIN RecordGiven(fmt)) =>
            LET given == RecordGiven(fmt)["ts"]
            IN  /\ given.tag \in {"int", "float"} \/ IsLiteral(given) =>
                      zout[fmt].row["ts"] = Datetime(FloatOf(given))
                /\ \A iso \in IsoInstants :
                      given = PyStr(<<iso.text>>) =>
                          zout[fmt].row["ts"] = Datetime(iso.tenths)

-----------------------------------------------------------------------------
(* Properties of the job under cancel requests, of its buffers and of its  *)
(* metadata row.                                                           *)

\* C25: a cancel request recorded while the job has not ended is never lost:
\* no step replaces the status 'cancelled' of a running job by another
\* status, and when the worker stops it has returned at the per-frame check
\* without writing the metadata row.
C25_CancelNeverLost ==
    [][(Registered /\ Status = "cancelled" /\ pc # "done") =>
          /\ progress_dict'[task_id].status = "cancelled"
          /\ pc' = "done" => result' = "cancel_return"
          /\ store'.pcap_metadata = <<>>]_vars

\* C26: a job whose status reads 'cancelled' has no metadata row.
C26_CancelledHasNoMetadata ==
    (Registered /\ Status = "cancelled") => store.pcap_metadata = <<>>

\* C27: at most batch_size rows are held in the packet buffer and in the
\* batch of an enrichment log, and a full packet buffer is held only while
\* its insert is being made (or after that insert has failed the job): no
\* frame is read with a full buffer.
C27_BuffersBounded ==
    /\ Len(packets_to_insert_rows) <= batch_size
    /\ Len(batch) <= batch_size
    /\ Len(packets_to_insert_rows) = batch_size => pc \in {"flush", "except", "done"}

\* A second full buffer is about to be inserted, the first one written.
C27_Witness ==
    /\ pc = "flush"
    /\ Len(packets_to_insert_rows) = batch_size
    /\ Len(store.packets) >= batch_size

\* C28: the row of an IP frame that is not decoded as TCP, UDP or ICMP
\* carries the name of its protocol number, or 'Proto-<n>' for a number
\* the table lacks; the row of an ARP frame without an IP layer carries
\* 'ARP'; 'Other' is carried exactly by the rows of frames that are neither.
C28_ClassificationStepsDown ==
    \A i \in 1..Len(PacketRowsSoFar) :
        LET row == PacketRowsSoFar[i]
            f == FrameOf(row)
        IN  /\ (f.l3 = "ip" /\ f.l4 \notin {"tcp", "udp", "icmp"}) =>
                   /\ row.protocol = IP_PROTOCOLS(f.p)
                   /\ f.p = 47 => row.protocol = "GRE"
                   /\ f.p = 200 => row.protocol = "Proto-200"
            /\ f.l3 = "arp" => row.protocol = "ARP"
            /\ row.protocol = "Other" <=> f.l3 \notin {"ip", "arp"}

\* Rows of a frame of an unlisted protocol number, of a listed one, of an ARP
\* frame and of a frame with neither layer have been written.
C28_Witness ==
    /\ pc = "done"
    /\ \E i \in 1..Len(store.packets) :
          store.packets[i].protocol \in {"Proto-200", "GRE", "SCTP", "ARP", "Other"}
    /\ \E i \in 1..Len(store.packets) :
          /\ FrameOf(store.packets[i]).l3 = "ip"
          /\ FrameOf(store.packets[i]).p = 200
          /\ store.packets[i].protocol = "Proto-200"

\* C29: the total_packets of the metadata row of a completed job is the
\* number of packets rows written for the capture, and the packet_number of
\* the last of them.
C29_TotalPacketsEqualsRows ==
    result = "returned" =>
        /\ Len(store.pcap_metadata) = 1
        /\ store.pcap_metadata[1].total_packets = Len(store.packets)
        /\ store.packets # <<>> =>
              store.pcap_metadata[1].total_packets =
                  store.packets[Len(store.packets)].packet_number

\* C23: the outcome of the worker does not depend on the entries of other
\* jobs in the registry.  With no entry at all in the registry a worker whose
\* capture is valid, whose inserts succeed and that no cancel request stops
\* returns after writing the metadata row; the same holds whatever entries
\* the registry has, the worker's own id registered or not.
C23_OutcomeIndependentOfOtherJobs ==
    (pc = "done" /\ capture.file = "ok" /\ ~store_failed /\ ~cancel_requested) =>
        /\ result = "returned"
        /\ Len(store.pcap_metadata) = 1
        /\ store.packets = RowsOf(capture.frames, Len(capture.frames))

-----------------------------------------------------------------------------
(* Properties of the control endpoints and of the progress value.          *)

\* The answer is a successful status read of the job.
ReadOf(r) == r.op = "status" /\ r.id = task_id /\ r.code = 200

\* C22: the progress of a job never decreases and stays within 0..100, in the
\* registry and in successive status reads, and it is 100 only when the
\* metadata row has been written.
C22_ProgressMonotone ==
    [][Registered =>
          /\ progress_dict'[task_id].progress >= progress_dict[task_id].progress
          /\ progress_dict'[task_id].progress \in 0..100
          /\ progress_dict'[task_id].progress = 100 => Len(store'.pcap_metadata) = 1
          /\ (ReadOf(response) /\ ReadOf(response')) =>
                response'.body.progress >= response.body.progress
          /\ ReadOf(response') =>
                /\ response'.body.progress \in 0..100
                /\ response'.body.progress = 100 => Len(store'.pcap_metadata) = 1]_vars

\* A read during the packet pass saw a progress between 30 and 99, and the
\* job has completed since.
C22_Witness ==
    /\ ReadOf(response)
    /\ response.body.progress > 30
    /\ response.body.progress < 99
    /\ Registered
    /\ progress_dict[task_id].progress = 100
    /\ Status = "completed"

\* C24: a status read or a cancel request for an id the registry does not
\* hold answers 404 'Task not found' and leaves the registry as it was; for
\* an id it holds, a cancel request changes the status field of that entry
\* and nothing else of the registry, and a status read changes nothing.
C24_EndpointsTouchOnlyTheirJob ==
    [][\A t \in TaskIds :
          /\ get_analysis_status(t) =>
                /\ progress_dict' = progress_dict
                /\ t \notin DOMAIN progress_dict =>
                      /\ response'.code = 404
                      /\ response'.body = [detail |-> "Task not found"]
          /\ cancel_analysis(t) =>
                /\ DOMAIN progress_dict' = DOMAIN progress_dict
                /\ \A u \in DOMAIN progress_dict \ {t} : progress_dict'[u] = progress_dict[u]
                /\ t \in DOMAIN progress_dict =>
                      progress_dict'[t].progress = progress_dict[t].progress
                /\ t \notin DOMAIN progress_dict =>
                      /\ response'.code = 404
                      /\ response'.body = [detail |-> "Task not found"]]_vars

\* The job's entry has been cancelled and a status read of an id that is not
\* registered has answered 404 since, the registry holding the job only.
C24_Witness ==
    /\ response = Answer("status", "B", 404, [detail |-> "Task not found"])
    /\ DOMAIN progress_dict = {task_id}
    /\ Status = "cancelled"

-----------------------------------------------------------------------------
(* Properties of the reprocessing script.                                  *)

\* C21: two runs of the script over the same capture give the same uid to
\* the same packet: the k-th record of one run and the k-th record of the
\* other are built from the same row and carry the same uid.
C21_UidSameAcrossRuns ==
    \A p \in DOMAIN reprocess, q \in DOMAIN reprocess :
        \A k \in 1..Len(reprocess[p].dns_records) :
            k <= Len(reprocess[q].dns_records) =>
                reprocess[p].dns_records[k].uid = reprocess[q].dns_records[k].uid

====
